---- MODULE Spec2Model ----
(***************************************************************************)
(* Model of the ReAct execution loop of DataScientistAgent                 *)
(* (src/main_controller.py), of the action parser parse_action             *)
(* (src/llm_interface.py) and of the session log ReActLogger               *)
(* (src/logging_module.py).                                                *)
(*                                                                         *)
(* A Python str is a sequence of one-character strings.  A Python value is *)
(* a record [t |-> type tag, v |-> payload].  A dict is a function from    *)
(* keys (character sequences) to values; the insertion order of a dict is  *)
(* not modelled (only the display of a logged action depends on it).       *)
(***************************************************************************)
EXTENDS Integers, Sequences, FiniteSets, TLC

(***************************************************************************)
(* String literals of the source.                                          *)
(***************************************************************************)
s_df == <<"d", "f">>
s_df_eq_df == <<"d", "f", "=", "d", "f">>
s_df_eq_sq == <<"d", "f", "=", "'", "d", "f", "'">>
s_df_eq_dq == <<"d", "f", "=", "\"", "d", "f", "\"">>
s_sq_df == <<"'", "d", "f", "'">>
s_dq_df == <<"\"", "d", "f", "\"">>
s_finish == <<"f", "i", "n", "i", "s", "h">>
s_complete == <<"c", "o", "m", "p", "l", "e", "t", "e">>
s_result == <<"r", "e", "s", "u", "l", "t">>
s_true == <<"t", "r", "u", "e">>
s_false == <<"f", "a", "l", "s", "e">>
s_null == <<"n", "u", "l", "l">>
s_NaN == <<"N", "a", "N">>
s_Infinity == <<"I", "n", "f", "i", "n", "i", "t", "y">>
s_NegInfinity == <<"-", "I", "n", "f", "i", "n", "i", "t", "y">>
s_DataFramePlaceholder == <<"[", "D", "a", "t", "a", "F", "r", "a", "m", "e", "]">>
s_TaskCompleted == <<"T", "a", "s", "k", " ", "c", "o", "m", "p", "l", "e", "t", "e", "d", " ", "s", "u", "c", "c", "e", "s", "s", "f", "u", "l", "l", "y", ".">>
s_NoActionSpecified == <<"N", "o", " ", "a", "c", "t", "i", "o", "n", " ", "s", "p", "e", "c", "i", "f", "i", "e", "d">>
s_CouldNotParse == <<"C", "o", "u", "l", "d", " ", "n", "o", "t", " ", "p", "a", "r", "s", "e", " ", "a", "c", "t", "i", "o", "n", ":", " ">>
s_NoActionReceived == <<"N", "o", " ", "a", "c", "t", "i", "o", "n", " ", "r", "e", "c", "e", "i", "v", "e", "d", " ", "f", "r", "o", "m", " ", "L", "L", "M">>
s_ErrorExecuting == <<"E", "r", "r", "o", "r", " ", "e", "x", "e", "c", "u", "t", "i", "n", "g", " ">>
s_UnknownAction == <<"U", "n", "k", "n", "o", "w", "n", " ", "a", "c", "t", "i", "o", "n", ":", " ">>
s_ErrorDuringIteration == <<"E", "r", "r", "o", "r", " ", "d", "u", "r", "i", "n", "g", " ", "i", "t", "e", "r", "a", "t", "i", "o", "n", " ">>
s_ColonSpace == <<":", " ">>
s_open_comma == <<"(", ",">>
s_comma_comma == <<",", ",">>
s_comma_close == <<",", ")">>
s_open == <<"(">>
s_close == <<")">>
s_comma == <<",">>
s_eq == <<"=">>
s_colon == <<":">>
s_sq == <<"'">>
s_dq == <<"\"">>
s_dot == <<".">>
s_empty == <<>>

(***************************************************************************)
(* Python values.                                                          *)
(***************************************************************************)
PyNone == [t |-> "None", v |-> <<>>]
PyStr(s) == [t |-> "str", v |-> s]
PyInt(n) == [t |-> "int", v |-> n]
PyFloat(lit) == [t |-> "float", v |-> lit]
PyBool(b) == [t |-> "bool", v |-> b]
PyList(l) == [t |-> "list", v |-> l]
PyDict(d) == [t |-> "dict", v |-> d]
DataFrame(h) == [t |-> "DataFrame", v |-> h]
EmptyDict == <<>>

\* d[k] = x of a dict: the key is added or its value replaced.
SetItem(d, k, x) == (k :> x) @@ d

\* for k, v in e.items(): d[k] = v
UpdateDict(d, e) == e @@ d

\* dict.get(k, default)
DictGet(d, k, default) == IF k \in DOMAIN d THEN d[k] ELSE default

(***************************************************************************)
(* Character classes and the str methods the source uses.                  *)
(***************************************************************************)
Digits == <<"0", "1", "2", "3", "4", "5", "6", "7", "8", "9">>
UpperLetters == <<"A", "B", "C", "D", "E", "F", "G", "H", "I", "J", "K", "L", "M",
                  "N", "O", "P", "Q", "R", "S", "T", "U", "V", "W", "X", "Y", "Z">>
LowerLetters == <<"a", "b", "c", "d", "e", "f", "g", "h", "i", "j", "k", "l", "m",
                  "n", "o", "p", "q", "r", "s", "t", "u", "v", "w", "x", "y", "z">>
Range(f) == {f[i] : i \in DOMAIN f}

IsDigitChar(c) == c \in Range(Digits)
DigitValue(c) == (CHOOSE i \in DOMAIN Digits : Digits[i] = c) - 1
\* \w of the re module, on ASCII text
IsWordChar(c) == c \in Range(Digits) \cup Range(UpperLetters) \cup Range(LowerLetters) \cup {"_"}
\* whitespace of str.strip, str.isspace and \s, on ASCII text
IsSpaceChar(c) == c \in {" ", "\t", "\n", "\r"}
LowerChar(c) ==
    IF c \in Range(UpperLetters)
    THEN LowerLetters[CHOOSE i \in DOMAIN UpperLetters : UpperLetters[i] = c]
    ELSE c

\* str.lower()
Lower(s) == [i \in 1..Len(s) |-> LowerChar(s[i])]

\* s[i:j] with 1-based inclusive bounds; empty when j < i
Slice(s, i, j) == IF j < i THEN <<>> ELSE SubSeq(s, i, j)

\* s.startswith(p, i-1)
StartsAt(s, p, i) ==
    /\ i >= 1
    /\ i + Len(p) - 1 <= Len(s)
    /\ \A k \in 1..Len(p) : s[i + k - 1] = p[k]

StartsWith(s, p) == StartsAt(s, p, 1)
EndsWith(s, p) == StartsAt(s, p, Len(s) - Len(p) + 1)

\* p in s
Contains(s, p) == \E i \in 1..(Len(s) - Len(p) + 1) : StartsAt(s, p, i)

\* s.replace(old, new): every non-overlapping occurrence, left to right (old is not empty)
RECURSIVE ReplaceFrom(_, _, _, _)
ReplaceFrom(s, old, new, i) ==
    IF i > Len(s) THEN <<>>
    ELSE IF StartsAt(s, old, i) THEN new \o ReplaceFrom(s, old, new, i + Len(old))
    ELSE <<s[i]>> \o ReplaceFrom(s, old, new, i + 1)

Replace(s, old, new) == ReplaceFrom(s, old, new, 1)

\* s.replace(old, new, 1)
ReplaceFirst(s, old, new) ==
    IF Contains(s, old)
    THEN LET i == CHOOSE k \in 1..Len(s) : StartsAt(s, old, k) /\ \A q \in 1..(k - 1) : ~StartsAt(s, old, q)
         IN Slice(s, 1, i - 1) \o new \o Slice(s, i + Len(old), Len(s))
    ELSE s

\* s.count(c) for a one-character c
CountChar(s, c) == Cardinality({i \in 1..Len(s) : s[i] = c})

\* s.strip(chars), by a predicate on characters
StripBy(s, Drop(_)) ==
    LET keep == {i \in 1..Len(s) : ~Drop(s[i])}
    IN IF keep = {} THEN <<>>
       ELSE LET a == CHOOSE i \in keep : \A k \in keep : i <= k
                b == CHOOSE i \in keep : \A k \in keep : i >= k
            IN SubSeq(s, a, b)

\* s.strip()
Strip(s) == StripBy(s, IsSpaceChar)

IsQuoteChar(c) == c \in {"\"", "'"}
\* s.strip('"\'')
StripQuotes(s) == StripBy(s, IsQuoteChar)

\* s.isspace()
IsSpace(s) == Len(s) > 0 /\ \A i \in 1..Len(s) : IsSpaceChar(s[i])

\* s.isdigit(), on ASCII text
IsDigit(s) == Len(s) > 0 /\ \A i \in 1..Len(s) : IsDigitChar(s[i])

\* int(s) of a string of digits
RECURSIVE DigitsToInt(_)
DigitsToInt(s) ==
    IF s = <<>> THEN 0
    ELSE 10 * DigitsToInt(SubSeq(s, 1, Len(s) - 1)) + DigitValue(s[Len(s)])

\* s.split(c) for a one-character separator c: the list of the pieces
RECURSIVE SplitFrom(_, _, _, _)
SplitFrom(s, c, i, start) ==
    IF i > Len(s) THEN <<Slice(s, start, Len(s))>>
    ELSE IF s[i] = c THEN <<Slice(s, start, i - 1)>> \o SplitFrom(s, c, i + 1, i + 1)
    ELSE SplitFrom(s, c, i + 1, start)

Split(s, c) == SplitFrom(s, c, 1, 1)

\* s.split(c, 1) of a string that contains c: the part before and the part after the first c
SplitFirst(s, c) ==
    LET i == CHOOSE k \in 1..Len(s) : s[k] = c /\ \A q \in 1..(k - 1) : s[q] # c
    IN <<Slice(s, 1, i - 1), Slice(s, i + 1, Len(s))>>

(***************************************************************************)
(* json.loads, as parse_action uses it: the decoder of the standard        *)
(* library on text without backslash escapes.  A decoding step returns     *)
(* [ok, val, pos]: whether it succeeded, the value, and the index after    *)
(* it.  A failure stands for the JSONDecodeError the caller catches.       *)
(*                                                                         *)
(* In the definitions below an intermediate result that is used more than  *)
(* once is bound as the parameter of a local operator.                     *)
(***************************************************************************)
JFail == [ok |-> FALSE, val |-> PyNone, pos |-> 0]
JOk(val, pos) == [ok |-> TRUE, val |-> val, pos |-> pos]

IsJsonWs(c) == c \in {" ", "\t", "\n", "\r"}

\* the index of the first character at or after i that is not whitespace (Len(s) + 1 if none)
JSkipWs(s, i) ==
    CHOOSE k \in i..(Len(s) + 1) :
        /\ (k = Len(s) + 1 \/ ~IsJsonWs(s[k]))
        /\ \A q \in i..(k - 1) : IsJsonWs(s[q])

\* the index of the last digit of the run of digits that starts at a (s[a] is a digit)
DigitRunEnd(s, a) ==
    CHOOSE k \in a..Len(s) :
        /\ \A q \in a..k : IsDigitChar(s[q])
        /\ (k = Len(s) \/ ~IsDigitChar(s[k + 1]))

IsDigitAt(s, i) == i >= 1 /\ i <= Len(s) /\ IsDigitChar(s[i])
IsCharAt(s, i, c) == i >= 1 /\ i <= Len(s) /\ s[i] = c

\* the least and the greatest element of a non-empty set of integers
Min(S) == CHOOSE k \in S : \A q \in S : k <= q
Max(S) == CHOOSE k \in S : \A q \in S : k >= q

\* a string: s[i] is the opening quote; control characters are refused (strict mode)
JString(s, i) ==
    LET Close(ends) ==
            IF ends = {} THEN JFail
            ELSE LET Body(j) ==
                         IF \E q \in (i + 1)..(j - 1) : s[q] \in {"\n", "\t", "\r"}
                         THEN JFail
                         ELSE JOk(PyStr(Slice(s, i + 1, j - 1)), j + 1)
                 IN Body(Min(ends))
    IN Close({k \in (i + 1)..Len(s) : s[k] = "\""})

\* a number: (-?(0|[1-9][0-9]*))(\.[0-9]+)?([eE][-+]?[0-9]+)?, a float when it has a
\* fraction or an exponent, an int otherwise
JNumber(s, i) ==
    LET Scan(a) ==
            IF ~IsDigitAt(s, a) THEN JFail
            ELSE LET AfterInt(intEnd) ==
                         LET AfterFrac(fracEnd) ==
                                 LET AfterSign(d) ==
                                         LET Result(end) ==
                                                 IF end > intEnd
                                                 THEN JOk(PyFloat(SubSeq(s, i, end)), end + 1)
                                                 ELSE JOk(PyInt(IF a > i
                                                                THEN 0 - DigitsToInt(SubSeq(s, a, intEnd))
                                                                ELSE DigitsToInt(SubSeq(s, a, intEnd))),
                                                          end + 1)
                                         IN Result(IF /\ (IsCharAt(s, fracEnd + 1, "e") \/ IsCharAt(s, fracEnd + 1, "E"))
                                                      /\ IsDigitAt(s, d)
                                                   THEN DigitRunEnd(s, d)
                                                   ELSE fracEnd)
                                 IN AfterSign(IF IsCharAt(s, fracEnd + 2, "-") \/ IsCharAt(s, fracEnd + 2, "+")
                                              THEN fracEnd + 3
                                              ELSE fracEnd + 2)
                         IN AfterFrac(IF IsCharAt(s, intEnd + 1, ".") /\ IsDigitAt(s, intEnd + 2)
                                      THEN DigitRunEnd(s, intEnd + 2)
                                      ELSE intEnd)
                 IN AfterInt(IF s[a] = "0" THEN a ELSE DigitRunEnd(s, a))
    IN Scan(IF IsCharAt(s, i, "-") THEN i + 1 ELSE i)

RECURSIVE JValue(_, _), JObjectPairs(_, _, _), JArrayItems(_, _, _)

\* one value starting at s[i]
JValue(s, i) ==
    IF i > Len(s) THEN JFail
    ELSE IF s[i] = "\"" THEN JString(s, i)
    ELSE IF s[i] = "{" THEN
        LET Object(j) == IF IsCharAt(s, j, "}") THEN JOk(PyDict(EmptyDict), j + 1)
                         ELSE JObjectPairs(s, j, EmptyDict)
        IN Object(JSkipWs(s, i + 1))
    ELSE IF s[i] = "[" THEN
        LET Array(j) == IF IsCharAt(s, j, "]") THEN JOk(PyList(<<>>), j + 1)
                        ELSE JArrayItems(s, j, <<>>)
        IN Array(JSkipWs(s, i + 1))
    ELSE IF StartsAt(s, s_null, i) THEN JOk(PyNone, i + 4)
    ELSE IF StartsAt(s, s_true, i) THEN JOk(PyBool(TRUE), i + 4)
    ELSE IF StartsAt(s, s_false, i) THEN JOk(PyBool(FALSE), i + 5)
    ELSE LET Number(n) ==
                 IF n.ok THEN n
                 ELSE IF StartsAt(s, s_NaN, i) THEN JOk(PyFloat(s_NaN), i + 3)
                 ELSE IF StartsAt(s, s_Infinity, i) THEN JOk(PyFloat(s_Infinity), i + 8)
                 ELSE IF StartsAt(s, s_NegInfinity, i) THEN JOk(PyFloat(s_NegInfinity), i + 9)
                 ELSE JFail
         IN Number(JNumber(s, i))

\* the pairs of an object, from the opening quote of a key at s[i]; a repeated key keeps its last value
JObjectPairs(s, i, acc) ==
    IF ~IsCharAt(s, i, "\"") THEN JFail
    ELSE LET AfterKey(k) ==
                 IF ~k.ok THEN JFail
                 ELSE LET AfterColon(c) ==
                              IF ~IsCharAt(s, c, ":") THEN JFail
                              ELSE LET AfterValue(val) ==
                                           IF ~val.ok THEN JFail
                                           ELSE LET More(acc2, e) ==
                                                        IF IsCharAt(s, e, "}") THEN JOk(PyDict(acc2), e + 1)
                                                        ELSE IF IsCharAt(s, e, ",")
                                                        THEN JObjectPairs(s, JSkipWs(s, e + 1), acc2)
                                                        ELSE JFail
                                                IN More(SetItem(acc, k.val.v, val.val), JSkipWs(s, val.pos))
                                   IN AfterValue(JValue(s, JSkipWs(s, c + 1)))
                      IN AfterColon(JSkipWs(s, k.pos))
         IN AfterKey(JString(s, i))

\* the items of an array, from the first character of an item at s[i]
JArrayItems(s, i, acc) ==
    LET AfterValue(val) ==
            IF ~val.ok THEN JFail
            ELSE LET More(acc2, e) ==
                         IF IsCharAt(s, e, "]") THEN JOk(PyList(acc2), e + 1)
                         ELSE IF IsCharAt(s, e, ",") THEN JArrayItems(s, JSkipWs(s, e + 1), acc2)
                         ELSE JFail
                 IN More(Append(acc, val.val), JSkipWs(s, val.pos))
    IN AfterValue(JValue(s, i))

\* json.loads(s): one value, with nothing but whitespace around it
json_loads(s) ==
    LET Whole(r) == IF r.ok /\ JSkipWs(s, r.pos) = Len(s) + 1 THEN r ELSE JFail
    IN Whole(JValue(s, JSkipWs(s, 1)))

(***************************************************************************)
(* parse_action (src/llm_interface.py).                                    *)
(***************************************************************************)

\* a match that does not ask for the closing parenthesis: the name is the text before
\* the first '(' and the arguments are the text after it
ReMatch_unclosed(s) ==
    IF \E k \in 1..Len(s) : s[k] = "("
        THEN LET Parts(kv) == [ok |-> TRUE, name |-> kv[1], args |-> kv[2]]
             IN Parts(SplitFirst(s, "("))
        ELSE [ok |-> FALSE, name |-> <<>>, args |-> <<>>]

\* re.match(r'(\w+)\s*\((.*)\)', s): anchored at the start of s; '.' does not match
\* a newline, and the greedy (.*) ends at the last ')' of the line of the '('.
ReMatch(s) ==
    LET NoMatch == [ok |-> FALSE, name |-> <<>>, args |-> <<>>]
        Name(nameEnd) ==
            IF nameEnd = 0 THEN NoMatch
            ELSE LET Open(j) ==
                         IF ~IsCharAt(s, j, "(") THEN NoMatch
                         ELSE LET Line(lineEnd) ==
                                      LET Closing(closers) ==
                                              IF closers = {} THEN NoMatch
                                              ELSE [ok |-> TRUE,
                                                    name |-> SubSeq(s, 1, nameEnd),
                                                    args |-> Slice(s, j + 1, Max(closers) - 1)]
                                      IN Closing({k \in (j + 1)..(lineEnd - 1) : s[k] = ")"})
                              IN Line(Min({k \in (j + 1)..(Len(s) + 1) : k = Len(s) + 1 \/ s[k] = "\n"}))
                 IN Open(CHOOSE k \in (nameEnd + 1)..(Len(s) + 1) :
                             /\ (k = Len(s) + 1 \/ ~IsSpaceChar(s[k]))
                             /\ \A q \in (nameEnd + 1)..(k - 1) : IsSpaceChar(s[q]))
    IN Name(CHOOSE n \in 0..Len(s) :
                /\ \A q \in 1..n : IsWordChar(s[q])
                /\ (n = Len(s) \/ ~IsWordChar(s[n + 1])))

\* 'df=df' in t or "df='df'" in t or 'df="df"' in t
HasDfPattern(t) ==
    Contains(t, s_df_eq_df) \/ Contains(t, s_df_eq_sq) \/ Contains(t, s_df_eq_dq)

\* .replace('(,', '(').replace(',,', ',').replace(',)', ')')
CleanupSeparators(t) ==
    Replace(Replace(Replace(t, s_open_comma, s_open), s_comma_comma, s_comma), s_comma_close, s_close)

\* the first of the three spellings found in t is removed from it, every occurrence
RemoveDfParam(t) ==
    IF Contains(t, s_df_eq_df) THEN CleanupSeparators(Replace(t, s_df_eq_df, <<>>))
    ELSE IF Contains(t, s_df_eq_sq) THEN CleanupSeparators(Replace(t, s_df_eq_sq, <<>>))
    ELSE IF Contains(t, s_df_eq_dq) THEN CleanupSeparators(Replace(t, s_df_eq_dq, <<>>))
    ELSE t

\* params_text after the df parameter was taken out of it, for the action text raw:
\* the text between the parentheses, stripped, without the spelling that was found
RemainingText(raw) ==
    LET Matched(m) == IF m.ok THEN RemoveDfParam(Strip(m.args)) ELSE <<>>
        Preprocessed(text) == Matched(ReMatch(text))
    IN Preprocessed(Replace(raw, s_df_eq_df, s_df_eq_sq))

\* [item.strip().strip('"\'') for item in items]
RECURSIVE StripItems(_)
StripItems(items) ==
    IF items = <<>> THEN <<>>
    ELSE <<PyStr(StripQuotes(Strip(Head(items))))>> \o StripItems(Tail(items))

\* the type conversion of one value of the fallback parsing
ConvertValue(value) ==
    IF Lower(value) = s_true THEN PyBool(TRUE)
    ELSE IF Lower(value) = s_false THEN PyBool(FALSE)
    ELSE IF IsDigit(value) THEN PyInt(DigitsToInt(value))
    ELSE IF IsDigit(ReplaceFirst(value, s_dot, <<>>)) /\ CountChar(value, ".") = 1 THEN PyFloat(value)
    ELSE IF StartsWith(value, <<"[">>) /\ EndsWith(value, <<"]">>)
    THEN PyList(StripItems(Split(Slice(value, 2, Len(value) - 1), ",")))
    ELSE IF StartsWith(value, <<"{">>) /\ EndsWith(value, <<"}">>) THEN
        LET Decoded(j) == IF j.ok THEN j.val ELSE PyStr(value)
        IN Decoded(json_loads(Replace(value, s_sq, s_dq)))
    ELSE IF StartsWith(value, s_sq) /\ EndsWith(value, s_sq) THEN PyStr(Slice(value, 2, Len(value) - 1))
    ELSE IF StartsWith(value, s_dq) /\ EndsWith(value, s_dq) THEN PyStr(Slice(value, 2, Len(value) - 1))
    ELSE PyStr(value)

\* one key=value piece of the fallback parsing, stored in the parameters acc
FallbackPair(acc, key, value) ==
    SetItem(acc, key,
        IF key = s_df /\ value \in {s_df, s_sq_df, s_dq_df}
        THEN PyStr(s_df)
        ELSE ConvertValue(value))

\* the fallback parsing: the pieces between commas, each split at its first '='
RECURSIVE FallbackPairs(_, _, _)
FallbackPairs(pairs, i, acc) ==
    IF i > Len(pairs) THEN acc
    ELSE IF Contains(pairs[i], s_eq) THEN
        LET KeyValue(kv) == FallbackPairs(pairs, i + 1, FallbackPair(acc, Strip(kv[1]), Strip(kv[2])))
        IN KeyValue(SplitFirst(pairs[i], "="))
    ELSE FallbackPairs(pairs, i + 1, acc)

\* the remaining parameters, read from the text rest after the df parameter was taken out
ParseRest(params0, rest) ==
    IF rest # <<>> /\ ~IsSpace(rest) /\ rest # s_comma
    THEN LET Decoded(parsed) ==
                 IF parsed.ok
                 THEN UpdateDict(params0, parsed.val.v)
                 ELSE FallbackPairs(Split(rest, ","), 1, params0)
         IN Decoded(json_loads(<<"{">> \o Replace(Replace(rest, s_eq, s_colon), s_sq, s_dq) \o <<"}">>))
    ELSE params0

\* the parameters read from the text between the parentheses
ParseParams(params_text) ==
    IF params_text = <<>> THEN EmptyDict
    ELSE IF HasDfPattern(params_text)
    THEN ParseRest(SetItem(EmptyDict, s_df, PyStr(s_df)), RemoveDfParam(params_text))
    ELSE ParseRest(EmptyDict, params_text)

\* a parser that takes the text between the parentheses for one key=value pair and keeps
\* the value as it is written
ParseMatched_value_as_written(text, match) ==
    IF ~match.ok
    THEN [name |-> PyNone, params |-> PyStr(s_CouldNotParse \o text)]
    ELSE [name |-> PyStr(Strip(match.name)),
          params |-> PyDict(IF Contains(match.args, s_eq)
                            THEN LET KeyValue(kv) == SetItem(EmptyDict, Strip(kv[1]), PyStr(Strip(kv[2])))
                                 IN KeyValue(SplitFirst(match.args, "="))
                            ELSE EmptyDict)]

\* the result for a text that matched: the name, and the parameters with the df reference
ParseMatched(text, match) ==
    IF ~match.ok
    THEN [name |-> PyNone, params |-> PyStr(s_CouldNotParse \o text)]
    ELSE [name |-> PyStr(Strip(match.name)),
          params |-> PyDict(IF HasDfPattern(text)
                            THEN SetItem(ParseParams(Strip(match.args)), s_df, PyStr(s_df))
                            ELSE ParseParams(Strip(match.args)))]

\* parse_action(action_text), with raw for the argument: [name, params], the pair it returns
parse_action(raw) ==
    IF raw = <<>>
    THEN [name |-> PyNone, params |-> PyStr(s_NoActionSpecified)]
    ELSE LET Preprocessed(text) == ParseMatched(text, ReMatch(text))
         IN Preprocessed(Replace(raw, s_df_eq_df, s_df_eq_sq))

(***************************************************************************)
(* The collaborators of the loop: the completion service behind            *)
(* LLMInterface.process_task and the tools of the registry.  Both are      *)
(* outside the program; the model draws what they return from small sets.  *)
(***************************************************************************)

\* bounds of the model
MaxIter == 2
MaxRuns == 2

\* the task descriptions given to run
Tasks == {<<"l", "o", "a", "d">>, <<"p", "l", "o", "t">>}

\* the thought text of a response with a Thought section
s_thought == <<"g", "o">>

\* the action texts process_task returns ("" when the response has no Action section)
a_finish_done == <<"f", "i", "n", "i", "s", "h", "(", "r", "e", "s", "u", "l", "t", "=", "'", "D", "o", "n", "e", "'", ")">>
a_complete == <<"c", "o", "m", "p", "l", "e", "t", "e", "(", ")">>
a_finish_null == <<"f", "i", "n", "i", "s", "h", "(", "\"", "r", "e", "s", "u", "l", "t", "\"", "=", "n", "u", "l", "l", ")">>
a_read == <<"r", "e", "a", "d", "_", "e", "x", "c", "e", "l", "(", "f", "i", "l", "e", "_", "p", "a", "t", "h", "=", "'", "a", ".", "x", "l", "s", "x", "'", ")">>
a_clean == <<"c", "l", "e", "a", "n", "_", "d", "a", "t", "a", "(", "d", "f", "=", "d", "f", ",", " ", "o", "p", "e", "r", "a", "t", "i", "o", "n", "s", "=", "{", "'", "d", "r", "o", "p", "n", "a", "'", ":", " ", "t", "r", "u", "e", "}", ")">>
a_unknown == <<"p", "l", "o", "t", "(", "x", "=", "1", ")">>
a_unclosed == <<"f", "(", "a", "=", "1">>
a_prose == <<"u", "s", "e", " ", "d", "f">>
ActionTexts == {<<>>, a_finish_done, a_complete, a_finish_null, a_read, a_clean,
                a_unknown, a_unclosed, a_prose}

\* the action texts of the sessions that load, clean and finish
a_read_sales == <<"r", "e", "a", "d", "_", "e", "x", "c", "e", "l", "(", "f", "i", "l", "e", "_", "p", "a", "t", "h", "=", "'", "d", "a", "t", "a", "/", "s", "a", "l", "e", "s", ".", "x", "l", "s", "x", "'", ")">>
a_Finish_upper == <<"F", "i", "n", "i", "s", "h", "(", "r", "e", "s", "u", "l", "t", "=", "'", "D", "o", "n", "e", "'", ")">>
a_finish_unclosed == <<"f", "i", "n", "i", "s", "h", "(", "r", "e", "s", "u", "l", "t", "=", "'", "D", "o", "n", "e", "'">>
SessionActionTexts == {a_read_sales, a_clean, a_finish_done, a_complete, a_Finish_upper,
                       a_finish_unclosed}

\* the sections of a response, as process_task extracts them
s_ThoughtMarker == <<"T", "h", "o", "u", "g", "h", "t", ":">>
s_ActionMarker == <<"A", "c", "t", "i", "o", "n", ":">>
s_BlankLine == <<"\n", "\n">>

\* the index of the first occurrence of p in s from index i on, Len(s) + 1 when there is none
FirstFrom(s, p, i) ==
    IF \E k \in i..Len(s) : StartsAt(s, p, k)
        THEN CHOOSE k \in i..Len(s) : StartsAt(s, p, k) /\ \A q \in i..(k - 1) : ~StartsAt(s, p, q)
        ELSE Len(s) + 1

\* re.search(r"Thought:(.*?)(?=Action:|$)", response, re.DOTALL), group(1).strip(),
\* "" without a match
ExtractThought(response) ==
    IF ~Contains(response, s_ThoughtMarker) THEN <<>>
    ELSE LET From(start) == Strip(Slice(response, start, FirstFrom(response, s_ActionMarker, start) - 1))
         IN From(FirstFrom(response, s_ThoughtMarker, 1) + Len(s_ThoughtMarker))

\* an extraction that takes a response without an Action section for the action
ExtractAction_whole(response) ==
    IF ~Contains(response, s_ActionMarker) THEN Strip(response)
    ELSE LET From(start) == Strip(Slice(response, start, FirstFrom(response, s_BlankLine, start) - 1))
         IN From(FirstFrom(response, s_ActionMarker, 1) + Len(s_ActionMarker))

\* re.search(r"Action:(.*?)(?=\n\n|$)", response, re.DOTALL), group(1).strip(),
\* "" without a match
ExtractAction(response) ==
    IF ~Contains(response, s_ActionMarker) THEN <<>>
    ELSE LET From(start) == Strip(Slice(response, start, FirstFrom(response, s_BlankLine, start) - 1))
         IN From(FirstFrom(response, s_ActionMarker, 1) + Len(s_ActionMarker))

\* get_response when the call of the completion service raises e: the text
\* f"Error calling LLM API: {str(e)}", with str(e) of a connection error and of a timeout
s_ErrorCallingLLM == <<"E", "r", "r", "o", "r", " ", "c", "a", "l", "l", "i", "n", "g", " ", "L", "L", "M", " ", "A", "P", "I", ":", " ">>
FailureDetails == {<<"C", "o", "n", "n", "e", "c", "t", "i", "o", "n", " ", "e", "r", "r", "o", "r", ".">>,
                   <<"R", "e", "q", "u", "e", "s", "t", " ", "t", "i", "m", "e", "d", " ", "o", "u", "t", ".">>}
GetResponseFailure(details) == s_ErrorCallingLLM \o details

\* what process_task returns when get_response returned the text of a failure
FailureResponses ==
    {[kind |-> "failure",
      action |-> ExtractAction(GetResponseFailure(d)),
      thought |-> ExtractThought(GetResponseFailure(d))] : d \in FailureDetails}

\* what one call of process_task does: it returns (action, thought), each "" when the
\* response has no such section, or the regular expression search raises TypeError on
\* a response whose content is None; after a failure of the completion service it
\* returns what it extracts from the text of the failure
Responses ==
    {[kind |-> "return", action |-> a, thought |-> s_thought] : a \in ActionTexts}
        \cup {[kind |-> "return", action |-> a, thought |-> <<>>] : a \in {<<>>, a_read}}
        \cup {[kind |-> "raise", action |-> <<>>, thought |-> <<>>]}
        \cup FailureResponses

\* the responses of the sessions that load, clean and finish
SessionResponses ==
    {[kind |-> "return", action |-> a, thought |-> s_thought] : a \in SessionActionTexts}

\* str(e) of the exceptions the loop meets
s_TypeErrorSearch == <<"e", "x", "p", "e", "c", "t", "e", "d", " ", "s", "t", "r", "i", "n", "g", " ", "o", "r", " ", "b", "y", "t", "e", "s", "-", "l", "i", "k", "e", " ", "o", "b", "j", "e", "c", "t", ",", " ", "g", "o", "t", " ", "'", "N", "o", "n", "e", "T", "y", "p", "e", "'">>
s_TypeErrorIndex == <<"s", "t", "r", "i", "n", "g", " ", "i", "n", "d", "i", "c", "e", "s", " ", "m", "u", "s", "t", " ", "b", "e", " ", "i", "n", "t", "e", "g", "e", "r", "s", ",", " ", "n", "o", "t", " ", "'", "s", "t", "r", "'">>
s_AttributeErrorCopy == <<"'", "s", "t", "r", "'", " ", "o", "b", "j", "e", "c", "t", " ", "h", "a", "s", " ", "n", "o", " ", "a", "t", "t", "r", "i", "b", "u", "t", "e", " ", "'", "c", "o", "p", "y", "'">>
s_ToolError == <<"b", "o", "o", "m">>

\* the keys of available_tools: every function that is a member of a module of the
\* tools directory, the imported create_engine included
available_tools ==
    {<<"r", "e", "a", "d", "_", "e", "x", "c", "e", "l">>,
     <<"r", "e", "a", "d", "_", "s", "q", "l">>,
     <<"l", "i", "s", "t", "_", "e", "x", "c", "e", "l", "_", "s", "h", "e", "e", "t", "s">>,
     <<"c", "r", "e", "a", "t", "e", "_", "e", "n", "g", "i", "n", "e">>,
     <<"c", "l", "e", "a", "n", "_", "d", "a", "t", "a">>,
     <<"h", "a", "n", "d", "l", "e", "_", "o", "u", "t", "l", "i", "e", "r", "s">>,
     <<"e", "x", "a", "m", "i", "n", "e", "_", "d", "a", "t", "a", "f", "r", "a", "m", "e">>,
     <<"c", "o", "m", "p", "u", "t", "e", "_", "s", "t", "a", "t", "i", "s", "t", "i", "c", "s">>,
     <<"c", "o", "m", "p", "u", "t", "e", "_", "c", "o", "r", "r", "e", "l", "a", "t", "i", "o", "n", "s">>,
     <<"i", "d", "e", "n", "t", "i", "f", "y", "_", "i", "m", "p", "o", "r", "t", "a", "n", "t", "_", "f", "e", "a", "t", "u", "r", "e", "s">>,
     <<"g", "e", "n", "e", "r", "a", "t", "e", "_", "p", "l", "o", "t">>,
     <<"g", "e", "n", "e", "r", "a", "t", "e", "_", "r", "e", "p", "o", "r", "t">>,
     <<"_", "g", "e", "n", "e", "r", "a", "t", "e", "_", "h", "t", "m", "l", "_", "r", "e", "p", "o", "r", "t">>,
     <<"_", "l", "i", "n", "e", "_", "p", "l", "o", "t">>,
     <<"_", "b", "a", "r", "_", "p", "l", "o", "t">>,
     <<"_", "s", "c", "a", "t", "t", "e", "r", "_", "p", "l", "o", "t">>,
     <<"_", "h", "i", "s", "t", "o", "g", "r", "a", "m", "_", "p", "l", "o", "t">>,
     <<"_", "b", "o", "x", "p", "l", "o", "t">>,
     <<"_", "h", "e", "a", "t", "m", "a", "p">>,
     <<"p", "l", "o", "t", "_", "m", "u", "l", "t", "i", "p", "l", "e">>}

\* the DataFrames the tools produce
Datasets == {DataFrame("d1"), DataFrame("d2")}

\* messages of the tools
s_ToolOk == <<"o", "k">>
s_NoDataFrame == <<"E", "r", "r", "o", "r", ":", " ", "N", "o", " ", "D", "a", "t", "a", "F", "r", "a", "m", "e", " ", "p", "r", "o", "v", "i", "d", "e", "d">>

\* what one call of a tool does: it returns (result, message) with a DataFrame, with
\* None and an error message, or with another value; or it raises
ToolOutcomes ==
    {[kind |-> "return", result |-> d, message |-> s_ToolOk] : d \in Datasets}
        \cup {[kind |-> "return", result |-> PyNone, message |-> s_NoDataFrame],
              [kind |-> "return", result |-> PyDict(EmptyDict), message |-> s_ToolOk],
              [kind |-> "raise", result |-> PyNone, message |-> s_ToolError]}

\* the tools that return a dataset with a success message
DatasetOutcomes == {[kind |-> "return", result |-> d, message |-> s_ToolOk] : d \in Datasets}

(***************************************************************************)
(* ReActLogger (src/logging_module.py): the session log.  An entry keeps   *)
(* the pieces its text is formatted from: the prefix, the text, and for an *)
(* action its parameters.                                                  *)
(***************************************************************************)
LogEntry(kind, text, params) == [kind |-> kind, text |-> text, params |-> params]

log_task(log, task_description) == Append(log, LogEntry("Task", task_description, EmptyDict))
log_thought(log, th) == Append(log, LogEntry("Thought", th, EmptyDict))
log_action_silent(log, action, params) == log
log_action(log, action, params) == Append(log, LogEntry("Action", action, params))
log_observation_dropped(log, observation) == log
log_observation(log, observation) == Append(log, LogEntry("Observation", observation, EmptyDict))

\* a session that starts on the log of the session before it
start_session_continued(log, task_description) == log_task(log, task_description)

\* start_session: the session log is reset and the task logged as its first entry
start_session(log, task_description) == log_task(<<>>, task_description)

(***************************************************************************)
(* DataScientistAgent.run (src/main_controller.py).                        *)
(***************************************************************************)
VARIABLES
    pc,              \* where run is: "idle" (not running), "loop", "request", "parse", "dispatch", "exit"
    task,            \* run's argument task
    max_iterations,  \* run's argument max_iterations
    iterations,      \* run's local iterations
    final_result,    \* run's local final_result
    current_data,    \* self.current_data
    session_log,     \* self.logger.session_log
    action_text,     \* run's local action_text
    func_name,       \* run's local func_name, execute_action's argument action_name
    params,          \* run's local params, as passed to the tool; execute_action's **params
    returned,        \* the value the last finished call returned, None while a run is under way
    runs,            \* history: the number of calls of run
    requests,        \* history: the calls of process_task in this run
    dispatches,      \* history: the calls of a tool in this run
    lookups,         \* history: the registry lookups in this run
    finished,        \* history: the times this run took the terminating branch
    last_call,       \* history: the name and the arguments of the last tool call
    last_outcome,    \* history: what the last tool call did
    last_response,   \* history: what the last call of process_task did
    last_request     \* history: the arguments of the last call of process_task

vars == <<pc, task, max_iterations, iterations, final_result, current_data, session_log,
          action_text, func_name, params, returned, runs, requests, dispatches, lookups,
          finished, last_call, last_outcome, last_response, last_request>>

NoResponse == [kind |-> "none", action |-> <<>>, thought |-> <<>>]
NoRequest == [task |-> <<>>, log |-> <<>>]
NoCall == [name |-> PyNone, params |-> PyNone]
NoOutcome == [kind |-> "none", result |-> PyNone, message |-> <<>>]

\* str(n) of a natural number
RECURSIVE IntToStr(_)
IntToStr(n) ==
    IF n < 10 THEN <<Digits[n + 1]>>
    ELSE IntToStr(n \div 10) \o <<Digits[(n % 10) + 1]>>

\* the state after DataScientistAgent.__init__
Init ==
    /\ pc = "idle"
    /\ task = <<>>
    /\ max_iterations = 0
    /\ iterations = 0
    /\ final_result = PyNone
    /\ current_data = PyNone
    /\ session_log = <<>>
    /\ action_text = <<>>
    /\ func_name = PyNone
    /\ params = PyNone
    /\ returned = PyNone
    /\ runs = 0
    /\ requests = 0
    /\ dispatches = 0
    /\ lookups = 0
    /\ finished = 0
    /\ last_call = NoCall
    /\ last_outcome = NoOutcome
    /\ last_response = NoResponse
    /\ last_request = NoRequest

\* the entry of run: start_session, iterations = 0, final_result = None
RunStart(t, m) ==
    /\ pc = "idle"
    /\ runs < MaxRuns
    /\ task' = t
    /\ max_iterations' = m
    /\ session_log' = start_session(session_log, t)
    /\ iterations' = 0
    /\ final_result' = PyNone
    /\ pc' = "loop"
    /\ returned' = PyNone
    /\ runs' = runs + 1
    /\ requests' = 0
    /\ dispatches' = 0
    /\ lookups' = 0
    /\ finished' = 0
    /\ last_call' = NoCall
    /\ last_outcome' = NoOutcome
    /\ last_response' = NoResponse
    /\ last_request' = NoRequest
    /\ action_text' = <<>>
    /\ func_name' = PyNone
    /\ params' = PyNone
    /\ UNCHANGED current_data

\* a loop that tests iterations <= max_iterations
LoopCondition_inclusive(i, m) == i <= m

\* while iterations < max_iterations
LoopCondition(i, m) == i < m

\* a loop head that enters the iteration without counting it
LoopTest_uncounted ==
    /\ pc = "loop"
    /\ pc' = IF LoopCondition(iterations, max_iterations) THEN "request" ELSE "exit"
    /\ UNCHANGED <<task, max_iterations, iterations, final_result, current_data, session_log,
                   action_text, func_name, params, returned, runs, requests, dispatches, lookups,
                   finished, last_call, last_outcome, last_response, last_request>>

\* the head of the loop: the test, and iterations += 1
LoopTest ==
    /\ pc = "loop"
    /\ IF LoopCondition(iterations, max_iterations)
       THEN /\ iterations' = iterations + 1
            /\ pc' = "request"
       ELSE /\ pc' = "exit"
            /\ UNCHANGED iterations
    /\ UNCHANGED <<task, max_iterations, final_result, current_data, session_log, action_text,
                   func_name, params, returned, runs, requests, dispatches, lookups, finished,
                   last_call, last_outcome, last_response, last_request>>

\* f"Error during iteration {iterations}: {str(e)}"
IterationError(i, details) == s_ErrorDuringIteration \o IntToStr(i) \o s_ColonSpace \o details

\* a check that takes no action text for empty
NoAction_never(action) == FALSE

\* not action_text
NoAction(action) == action = <<>>

\* stored_data_info when self.current_data is not None
s_StoredDataInfo ==
    <<"\n", "I", "m", "p", "o", "r", "t", "a", "n", "t", ":", " ", "A", " ", "D", "a", "t", "a", "F", "r", "a", "m", "e", " ", "i", "s", " ", "a", "l", "r", "e", "a", "d", "y", " ", "l", "o", "a", "d", "e", "d", " ", "i", "n", " ", "m", "e", "m", "o", "r", "y", ".", " ", "Y", "o", "u", " ", "c", "a", "n", " ", "u", "s", "e", " ", "'", "d", "f", "'", " ", "d", "i", "r", "e", "c", "t", "l", "y", " ", "i", "n", " ", "y", "o", "u", "r", " ", "f", "u", "n", "c", "t", "i", "o", "n", " ", "c", "a", "l", "l", "s", " ", "t", "o", " ", "r", "e", "f", "e", "r", " ", "t", "o", " ", "i", "t", ".">>

\* a task text that tells of a loaded DataFrame whatever current_data is
RequestTask_always(t, data) == t \o s_StoredDataInfo

\* task + stored_data_info, the first argument of process_task
RequestTask(t, data) == IF data # PyNone THEN t \o s_StoredDataInfo ELSE t

\* the request of the next step: process_task, the thought logged, an empty action skipped
Request(resp) ==
    /\ pc = "request"
    /\ requests' = requests + 1
    /\ last_response' = resp
    /\ last_request' = [task |-> RequestTask(task, current_data), log |-> session_log]
    /\ IF resp.kind = "raise"
       THEN /\ session_log' = log_observation(session_log, IterationError(iterations, s_TypeErrorSearch))
            /\ pc' = "loop"
            /\ UNCHANGED action_text
       ELSE LET log1 == IF resp.thought # <<>> THEN log_thought(session_log, resp.thought)
                        ELSE session_log
            IN /\ action_text' = resp.action
               /\ IF NoAction(resp.action)
                  THEN /\ session_log' = log_observation(log1, s_NoActionReceived)
                       /\ pc' = "loop"
                  ELSE /\ session_log' = log1
                       /\ pc' = "parse"
    /\ UNCHANGED <<task, max_iterations, iterations, final_result, current_data, func_name,
                   params, returned, runs, dispatches, lookups, finished, last_call, last_outcome>>

\* a check that ignores the case of the letters
IsTerminating_caseless(name) == name.t = "str" /\ Lower(name.v) \in {s_finish, s_complete}

\* a check that knows "finish" only
IsTerminating_finish_only(name) == name = PyStr(s_finish)

\* func_name == "finish" or func_name == "complete"
IsTerminating(name) == name = PyStr(s_finish) \/ name = PyStr(s_complete)

\* a result that is the placeholder whatever the arguments are
FinalResult_placeholder(p) == PyStr(s_TaskCompleted)

\* params.get("result", "Task completed successfully.")
FinalResult(p) == DictGet(p, s_result, PyStr(s_TaskCompleted))

\* 'df' in params and params['df'] == 'df' and self.current_data is not None
RefersToCurrentData(p, data) ==
    /\ s_df \in DOMAIN p
    /\ p[s_df] = PyStr(s_df)
    /\ data # PyNone

\* parameters passed on without the substitution of the df reference
ResolvedParams_as_parsed(p, data) == p

\* the parameters the tool is called with
ResolvedParams(p, data) ==
    IF RefersToCurrentData(p, data) THEN SetItem(p, s_df, data) ELSE p

\* the parameters the action is logged with
LoggedParams(p, data) ==
    IF RefersToCurrentData(p, data) THEN SetItem(p, s_df, PyStr(s_DataFramePlaceholder)) ELSE p

\* str(e) of the exception raised when params is the message of a parse failure:
\* params['df'] when the message contains 'df', params.copy() otherwise
ParseFailureError(message) ==
    IF Contains(message, s_df) THEN s_TypeErrorIndex ELSE s_AttributeErrorCopy

\* parse_action is a pure function: its results on the action texts of the model,
\* as the set of the pairs <<action text, result>>, and the result for one text
ParsedActions == {<<a, parse_action(a)>> : a \in ActionTexts \cup SessionActionTexts}
Parsed(a) == (CHOOSE p \in ParsedActions : p[1] = a)[2]

\* parse_action, the terminating check, the df parameter and the logging of the action
Parse ==
    /\ pc = "parse"
    /\ LET Step(parsed) ==
          IF IsTerminating(parsed.name)
          THEN /\ final_result' = FinalResult(parsed.params.v)
               /\ session_log' = log_action(session_log, s_finish,
                                            SetItem(EmptyDict, s_result, FinalResult(parsed.params.v)))
               /\ finished' = finished + 1
               /\ pc' = "exit"
               /\ UNCHANGED <<func_name, params>>
          ELSE IF parsed.params.t # "dict"
          THEN /\ session_log' = log_observation(session_log,
                                     IterationError(iterations, ParseFailureError(parsed.params.v)))
               /\ pc' = "loop"
               /\ func_name' = parsed.name
               /\ params' = parsed.params
               /\ UNCHANGED <<final_result, finished>>
          ELSE /\ session_log' = log_action(session_log, parsed.name.v,
                                            LoggedParams(parsed.params.v, current_data))
               /\ func_name' = parsed.name
               /\ params' = PyDict(ResolvedParams(parsed.params.v, current_data))
               /\ pc' = "dispatch"
               /\ UNCHANGED <<final_result, finished>>
       IN Step(Parsed(action_text))
    /\ UNCHANGED <<task, max_iterations, iterations, current_data, action_text, returned, runs,
                   requests, dispatches, lookups, last_call, last_outcome, last_response, last_request>>

\* isinstance(result, pd.DataFrame)
IsDataFrame(result) == result.t = "DataFrame"

\* a store that keeps every result that is not None
StoredData_any_result(data, result) == IF result # PyNone THEN result ELSE data

\* a store that forgets the data when the result is not a DataFrame
StoredData_last_result(data, result) == IF IsDataFrame(result) THEN result ELSE PyNone

\* self.current_data after a tool returned result
StoredData(data, result) == IF IsDataFrame(result) THEN result ELSE data

\* an error message without the name of the tool
ExecutionError_without_name(name, details) == s_ErrorExecuting \o details

\* f"Error executing {func_name}: {str(e)}"
ExecutionError(name, details) == s_ErrorExecuting \o name \o s_ColonSpace \o details

\* an error message without the name of the action
UnknownActionError_without_name(name) == s_UnknownAction

\* f"Unknown action: {func_name}"
UnknownActionError(name) == s_UnknownAction \o name

\* the observation logged after a tool call
ToolObservation(name, outcome) ==
    IF outcome.kind = "return" THEN outcome.message ELSE ExecutionError(name, outcome.message)

\* the registry lookup and the call of the tool, with the observation logged
Dispatch(outcome) ==
    /\ pc = "dispatch"
    /\ lookups' = lookups + 1
    /\ IF func_name.v \in available_tools
       THEN /\ outcome \in ToolOutcomes
            /\ dispatches' = dispatches + 1
            /\ last_call' = [name |-> func_name, params |-> params]
            /\ last_outcome' = outcome
            /\ current_data' = IF outcome.kind = "return"
                               THEN StoredData(current_data, outcome.result)
                               ELSE current_data
            /\ session_log' = log_observation(session_log, ToolObservation(func_name.v, outcome))
       ELSE /\ outcome = NoOutcome
            /\ session_log' = log_observation(session_log, UnknownActionError(func_name.v))
            /\ UNCHANGED <<dispatches, last_call, last_outcome, current_data>>
    /\ pc' = "loop"
    /\ UNCHANGED <<task, max_iterations, iterations, final_result, action_text, func_name, params,
                   returned, runs, requests, finished, last_response, last_request>>

\* the end of run: the log saved, (final_result, log) returned
RunReturn ==
    /\ pc = "exit"
    /\ returned' = [t |-> "tuple", v |-> <<final_result, session_log>>]
    /\ pc' = "idle"
    /\ UNCHANGED <<task, max_iterations, iterations, final_result, current_data, session_log,
                   action_text, func_name, params, runs, requests, dispatches, lookups, finished,
                   last_call, last_outcome, last_response, last_request>>

Next ==
    \/ \E t \in Tasks, m \in 0..MaxIter : RunStart(t, m)
    \/ LoopTest
    \/ \E resp \in Responses : Request(resp)
    \/ Parse
    \/ \E outcome \in ToolOutcomes \cup {NoOutcome} : Dispatch(outcome)
    \/ RunReturn

Spec == Init /\ [][Next]_vars

\* run is sequential code: once called, each of its steps is taken (process_task and
\* the tools return or raise); nothing obliges the caller to call run again
FairSpec ==
    /\ Spec
    /\ WF_vars(LoopTest)
    /\ WF_vars(\E resp \in Responses : Request(resp))
    /\ WF_vars(Parse)
    /\ WF_vars(\E outcome \in ToolOutcomes \cup {NoOutcome} : Dispatch(outcome))
    /\ WF_vars(RunReturn)

(***************************************************************************)
(* DataScientistAgent.execute_action (src/main_controller.py), and the     *)
(* agent used through both entry points: run with the responses of the     *)
(* sessions that load, clean and finish, and execute_action.               *)
(***************************************************************************)

\* bound of the iterations of these sessions
MaxSessionIter == 3

SessionTasks == {<<"l", "o", "a", "d">>}

\* the names and the keyword arguments execute_action is called with
s_clean_data == <<"c", "l", "e", "a", "n", "_", "d", "a", "t", "a">>
DirectNames == {s_clean_data, <<"p", "l", "o", "t">>, s_finish}
DirectArgs == {EmptyDict, SetItem(EmptyDict, s_df, PyStr(s_df))}

\* arguments in which the df reference is resolved as run resolves it
DirectParams_resolved(args, data) == IF data # PyNone /\ s_df \in DOMAIN args THEN SetItem(args, s_df, data) ELSE args

\* the arguments execute_action calls the tool with: **params, whatever current_data is
DirectParams(args, data) == args

\* an execute_action that stores a returned DataFrame, as run does
ExecuteAction_storing(action_name, args, outcome) ==
    /\ pc = "idle"
    /\ func_name' = PyStr(action_name)
    /\ params' = PyDict(args)
    /\ IF action_name \in available_tools
       THEN /\ outcome \in ToolOutcomes
            /\ last_call' = [name |-> PyStr(action_name),
                             params |-> PyDict(DirectParams(args, current_data))]
            /\ last_outcome' = outcome
            /\ current_data' = IF outcome.kind = "return"
                               THEN StoredData(current_data, outcome.result)
                               ELSE current_data
            /\ returned' = [t |-> "tuple",
                            v |-> IF outcome.kind = "return"
                                  THEN <<outcome.result, PyStr(outcome.message)>>
                                  ELSE <<PyNone, PyStr(ExecutionError(action_name, outcome.message))>>]
       ELSE /\ outcome = NoOutcome
            /\ returned' = [t |-> "tuple", v |-> <<PyNone, PyStr(UnknownActionError(action_name))>>]
            /\ UNCHANGED <<last_call, last_outcome, current_data>>
    /\ UNCHANGED <<pc, task, max_iterations, iterations, final_result, session_log,
                   action_text, runs, requests, dispatches, lookups, finished, last_response, last_request>>

\* execute_action(action_name, **params)
ExecuteAction(action_name, args, outcome) ==
    /\ pc = "idle"
    /\ func_name' = PyStr(action_name)
    /\ params' = PyDict(args)
    /\ IF action_name \in available_tools
       THEN /\ outcome \in ToolOutcomes
            /\ last_call' = [name |-> PyStr(action_name),
                             params |-> PyDict(DirectParams(args, current_data))]
            /\ last_outcome' = outcome
            /\ returned' = [t |-> "tuple",
                            v |-> IF outcome.kind = "return"
                                  THEN <<outcome.result, PyStr(outcome.message)>>
                                  ELSE <<PyNone, PyStr(ExecutionError(action_name, outcome.message))>>]
       ELSE /\ outcome = NoOutcome
            /\ returned' = [t |-> "tuple", v |-> <<PyNone, PyStr(UnknownActionError(action_name))>>]
            /\ UNCHANGED <<last_call, last_outcome>>
    /\ UNCHANGED <<pc, task, max_iterations, iterations, final_result, current_data, session_log,
                   action_text, runs, requests, dispatches, lookups, finished, last_response, last_request>>

SessionNext ==
    \/ \E t \in SessionTasks, m \in 0..MaxSessionIter : RunStart(t, m)
    \/ LoopTest
    \/ \E resp \in SessionResponses : Request(resp)
    \/ Parse
    \/ \E outcome \in DatasetOutcomes \cup {NoOutcome} : Dispatch(outcome)
    \/ RunReturn
    \/ \E n \in DirectNames, a \in DirectArgs, outcome \in ToolOutcomes \cup {NoOutcome} :
           ExecuteAction(n, a, outcome)

SessionSpec == Init /\ [][SessionNext]_vars

\* the agent used through both entry points, with the responses that lead to each branch
\* of the loop (a tool call, an unknown action, a parse failure, a terminating action, no
\* action) and every tool outcome: the steps of run, and execute_action between the runs
AgentResponses ==
    {[kind |-> "return", action |-> a, thought |-> s_thought] :
         a \in {a_read, a_unknown, a_unclosed, a_finish_done}}
        \cup FailureResponses

AgentNext ==
    \/ \E m \in 0..MaxIter : RunStart(<<"l", "o", "a", "d">>, m)
    \/ LoopTest
    \/ \E resp \in AgentResponses : Request(resp)
    \/ Parse
    \/ \E outcome \in ToolOutcomes \cup {NoOutcome} : Dispatch(outcome)
    \/ RunReturn
    \/ \E n \in {s_clean_data, <<"p", "l", "o", "t">>}, outcome \in ToolOutcomes \cup {NoOutcome} :
           ExecuteAction(n, EmptyDict, outcome)

AgentSpec == Init /\ [][AgentNext]_vars

(***************************************************************************)
(* parse_action applied to action texts: calls of a name with up to        *)
(* MaxArgs arguments, well formed or not.                                  *)
(***************************************************************************)

\* bound of the number of arguments of a call
MaxArgs == 2

\* the texts of single arguments
ArgTexts ==
    {<<"d", "f", "=", "'", "d", "f", "'">>,
     <<"d", "f", "=", "d", "f">>,
     <<"d", "f", "=", "\"", "d", "f", "\"">>,
     <<"x", "=", "{", "'", "a", "'", ":", "1", ",", "'", "b", "'", ":", "2", "}">>,
     <<"l", "=", "[", "1", ",", "2", "]">>,
     <<"f", "l", "a", "g", "=", "T", "r", "u", "e">>,
     <<"n", "=", "-", "5">>,
     <<"n", "=", "7">>,
     <<"r", "=", "1", ".", "5">>,
     <<"s", "=", "'", "a", ",", "b", "'">>,
     <<"t", "=", "\"", "x", "=", "y", "\"">>,
     <<"a", "b", "c">>,
     <<"o", "p", "e", "r", "a", "t", "i", "o", "n", "s", "=", "{", "'", "d", "r", "o", "p", "n", "a", "'", ":", " ", "t", "r", "u", "e", "}">>}

\* the sequences of at most n arguments
RECURSIVE ArgLists(_)
ArgLists(n) ==
    IF n = 0 THEN {<<>>}
    ELSE ArgLists(n - 1) \cup {Append(l, a) : l \in {k \in ArgLists(n - 1) : Len(k) = n - 1}, a \in ArgTexts}

\* ", ".join(args)
RECURSIVE Join(_)
Join(args) ==
    IF args = <<>> THEN <<>>
    ELSE IF Len(args) = 1 THEN args[1]
    ELSE args[1] \o <<",", " ">> \o Join(Tail(args))

\* the text of a call, and the same text without its closing parenthesis
CallText(name, args) == name \o <<"(">> \o Join(args) \o <<")">>
Unclosed(text) == SubSeq(text, 1, Len(text) - 1)

\* arguments that hold the text of the df reference without being the argument df
a_other_df == <<"o", "t", "h", "e", "r", "_", "d", "f", "=", "d", "f">>
a_note_df == <<"n", "o", "t", "e", "=", "\"", "d", "f", "=", "d", "f", "\"">>
AliasLookalikes == {a_other_df, a_note_df}

\* the three spellings of the argument df that refers to the current data, and an
\* argument df with another value
AliasArgs == {s_df_eq_df, s_df_eq_sq, s_df_eq_dq}
a_df_seven == <<"d", "f", "=", "7">>

\* prose around a call, and the calls it is put around
s_prose_before == <<"N", "o", "w", " ">>
s_prose_after == <<" ", "n", "o", "w">>
OneArgCalls == {CallText(<<"f">>, args) : args \in ArgLists(1)}

\* the action texts parse_action is applied to
WellFormedCalls == {CallText(<<"f">>, args) : args \in ArgLists(MaxArgs)}
ParserInputs ==
    WellFormedCalls
        \cup {Unclosed(t) : t \in {CallText(<<"f">>, args) : args \in ArgLists(1)}}
        \cup {CallText(<<"f">>, <<a, <<>>>>) : a \in ArgTexts}
        \cup {<<>>, a_prose, a_finish_null, a_clean}
        \cup {s_prose_before \o c : c \in OneArgCalls}
        \cup {c \o s_prose_after : c \in OneArgCalls}
        \cup {s_prose_before \o c \o s_prose_after : c \in OneArgCalls}
        \cup {CallText(<<"f">>, <<a, a_df_seven>>) : a \in AliasArgs}
        \cup {CallText(<<"f">>, <<a_df_seven, a>>) : a \in AliasArgs}
        \cup {CallText(<<"f">>, <<a_df_seven>>)}
        \cup {CallText(<<"f">>, <<a>>) : a \in AliasLookalikes}
        \cup {CallText(<<"f">>, <<a, <<"n", "=", "7">>>>) : a \in AliasLookalikes}

\* an agent that has an action text and has not parsed it yet
ParserInit ==
    /\ pc = "idle"
    /\ task = <<>>
    /\ max_iterations = 0
    /\ iterations = 0
    /\ final_result = PyNone
    /\ current_data = PyNone
    /\ session_log = <<>>
    /\ action_text \in ParserInputs
    /\ func_name = PyNone
    /\ params = PyNone
    /\ returned = PyNone
    /\ runs = 0
    /\ requests = 0
    /\ dispatches = 0
    /\ lookups = 0
    /\ finished = 0
    /\ last_call = NoCall
    /\ last_outcome = NoOutcome
    /\ last_response = NoResponse
    /\ last_request = NoRequest

\* func_name, params = parse_action(action_text)
ParseCall ==
    /\ params = PyNone
    /\ LET Result(r) == func_name' = r.name /\ params' = r.params
       IN Result(parse_action(action_text))
    /\ UNCHANGED <<pc, task, max_iterations, iterations, final_result, current_data, session_log,
                   action_text, returned, runs, requests, dispatches, lookups, finished,
                   last_call, last_outcome, last_response, last_request>>

ParserNext == ParseCall

ParserSpec == ParserInit /\ [][ParserNext]_vars

(***************************************************************************)
(* The claims about run.  A run is over when pc = "idle" and runs > 0; its *)
(* locals and the history counters keep their last values until the next   *)
(* call of run.                                                            *)
(***************************************************************************)

\* a run is over, and took the terminating branch n times
RunOver(n) == pc = "idle" /\ runs > 0 /\ finished = n

\* the last entry of the session log
LastEntry == session_log[Len(session_log)]

\* an observation entry with the text t
ObservationEntry(t) == [kind |-> "Observation", text |-> t, params |-> EmptyDict]

\* the parsed action carries the df reference
CarriesDfReference(p) == s_df \in DOMAIN p /\ p[s_df] = PyStr(s_df)

\* C1 (amended): there is one completion request per iteration and at most one registry
\* lookup and one tool call per request; a run with max_iterations >= 1 in which no
\* terminating synonym was parsed is over after exactly max_iterations iterations and
\* max_iterations completion requests, and it returns None as its result.
C1_BudgetExhausted ==
    /\ requests <= iterations
    /\ iterations <= requests + 1
    /\ dispatches <= lookups
    /\ lookups <= requests
    /\ (RunOver(0) /\ max_iterations >= 1) =>
           /\ iterations = max_iterations
           /\ requests = max_iterations
           /\ returned.t = "tuple"
           /\ returned.v[1] = PyNone

\* C1 witness: a run of two iterations without a terminating synonym is over, with a
\* tool called in one iteration only
C1_Witness ==
    RunOver(0) /\ max_iterations = 2 /\ iterations = 2 /\ dispatches = 1

\* C1 as stated: as above, and with max_iterations = 1 there is exactly one dispatch
\* attempt (a registry lookup, whether or not a tool is found)
C1_ExactlyOneDispatchAttempt ==
    /\ C1_BudgetExhausted
    /\ (RunOver(0) /\ max_iterations = 1) => lookups = 1

\* C2: when the parsed name is "finish" or "complete", final_result becomes the result
\* argument, or "Task completed successfully." without one; one Action entry "finish"
\* with that result is appended; there is no registry lookup, tool call or completion
\* request in that step or after it in this run, and no further iteration; final_result
\* is set at most once in a run.
C2_TerminatingInvocation ==
    /\ [](finished <= 1 /\ (finished = 1 => pc \in {"exit", "idle"}))
    /\ [][/\ (pc = "parse" /\ Parsed(action_text).name \in {PyStr(s_finish), PyStr(s_complete)}) =>
                 LET p == Parsed(action_text).params.v
                 IN /\ final_result' = IF s_result \in DOMAIN p THEN p[s_result]
                                       ELSE PyStr(s_TaskCompleted)
                    /\ session_log' = Append(session_log,
                                             [kind |-> "Action", text |-> s_finish,
                                              params |-> (s_result :> final_result')])
                    /\ finished = 0
                    /\ finished' = 1
                    /\ pc' = "exit"
          /\ (pc # "idle" /\ final_result' # final_result) => (finished = 0 /\ finished' = 1)
          /\ (pc # "idle" /\ finished' = 1) =>
                 /\ requests' = requests
                 /\ dispatches' = dispatches
                 /\ lookups' = lookups
                 /\ iterations' = iterations
         ]_vars

\* C2 witness: "complete()" was parsed in the second iteration, after a tool call
C2_Witness ==
    /\ pc = "exit"
    /\ finished = 1
    /\ action_text = a_complete
    /\ final_result = PyStr(s_TaskCompleted)
    /\ iterations = 2
    /\ dispatches = 1

\* C3 as stated: the result run returns is not None if and only if a terminating
\* invocation was parsed, and it is None if and only if the iterations were used up
\* without one.
C3_ResultPresentIffTerminated ==
    (pc = "idle" /\ runs > 0) =>
        /\ (returned.v[1] # PyNone) <=> (finished = 1)
        /\ (returned.v[1] = PyNone) <=> (finished = 0 /\ iterations = max_iterations)

\* C4: every step that goes back to the head of the loop appends an observation to the
\* session log and keeps the entries before it; run returns the pair of final_result
\* and the session log; and every run that was started returns.
C4_NoFailureEscapes ==
    /\ [][(pc \in {"request", "parse", "dispatch"} /\ pc' = "loop") =>
              /\ Len(session_log') > Len(session_log)
              /\ SubSeq(session_log', 1, Len(session_log)) = session_log
              /\ session_log'[Len(session_log')].kind = "Observation"
              /\ final_result' = final_result
         ]_vars
    /\ [][(pc # "idle" /\ pc' = "idle") =>
              /\ pc = "exit"
              /\ returned' = [t |-> "tuple", v |-> <<final_result, session_log>>]
         ]_vars
    /\ (pc # "idle") ~> (pc = "idle" /\ returned.t = "tuple")

\* C4 witness: a run is over whose first iteration failed to parse the action and whose
\* second iteration called a tool that raised
C4_Witness ==
    /\ RunOver(0)
    /\ Len(session_log) = 6
    /\ session_log[3] = ObservationEntry(IterationError(1, s_AttributeErrorCopy))
    /\ session_log[6].kind = "Observation"
    /\ StartsWith(session_log[6].text, s_ErrorExecuting)
    /\ returned = [t |-> "tuple", v |-> <<PyNone, session_log>>]

\* C5: when a tool of the registry raises, the observation
\* "Error executing <name>: <details>" is appended, current_data and final_result (None)
\* are unchanged, and the loop goes on at its head within the same iteration count.
C5_RaisingOperation ==
    [][(pc = "dispatch" /\ dispatches' = dispatches + 1 /\ last_outcome'.kind = "raise") =>
           /\ session_log' = Append(session_log,
                                    ObservationEntry(s_ErrorExecuting \o func_name.v
                                                         \o s_ColonSpace \o last_outcome'.message))
           /\ current_data' = current_data
           /\ final_result = PyNone
           /\ final_result' = PyNone
           /\ iterations' = iterations
           /\ pc' = "loop"
      ]_vars

\* C5 witness: a tool raised while a dataset was stored, in the first of two iterations
C5_Witness ==
    /\ pc = "loop"
    /\ iterations = 1
    /\ max_iterations = 2
    /\ last_outcome.kind = "raise"
    /\ current_data \in Datasets
    /\ LastEntry = ObservationEntry(ExecutionError(func_name.v, s_ToolError))

\* C6: when the parsed name is neither "finish" nor "complete" nor a key of the registry,
\* no tool is called, the observation "Unknown action: <name>" is appended, current_data
\* is unchanged and the loop goes on at its head.
C6_UnknownAction ==
    [][(/\ pc = "dispatch"
        /\ func_name.v \notin available_tools
        /\ func_name.v \notin {s_finish, s_complete}) =>
           /\ dispatches' = dispatches
           /\ last_call' = last_call
           /\ session_log' = Append(session_log, ObservationEntry(s_UnknownAction \o func_name.v))
           /\ current_data' = current_data
           /\ pc' = "loop"
      ]_vars

\* C6 witness: "plot(x=1)" was looked up while a dataset was stored
C6_Witness ==
    /\ pc = "loop"
    /\ action_text = a_unknown
    /\ lookups = 2
    /\ dispatches = 1
    /\ current_data \in Datasets
    /\ LastEntry = ObservationEntry(s_UnknownAction \o <<"p", "l", "o", "t">>)

\* C7: when the parsed invocation carries the df reference and current_data is set, the
\* tool is called with current_data as df and with the other parsed arguments unchanged.
C7_ReferenceResolved ==
    [][(pc = "dispatch" /\ dispatches' = dispatches + 1) =>
           LET p == Parsed(action_text).params.v
           IN (CarriesDfReference(p) /\ current_data # PyNone) =>
                  /\ last_call'.name = Parsed(action_text).name
                  /\ DOMAIN last_call'.params.v = DOMAIN p
                  /\ last_call'.params.v[s_df] = current_data
                  /\ \A k \in DOMAIN p \ {s_df} : last_call'.params.v[k] = p[k]
      ]_vars

\* C7 witness: clean_data was called with the stored dataset d1 and the parsed operations
C7_Witness ==
    /\ pc = "loop"
    /\ action_text = a_clean
    /\ dispatches = 2
    /\ last_call.name = PyStr(<<"c", "l", "e", "a", "n", "_", "d", "a", "t", "a">>)
    /\ last_call.params.v[s_df] = DataFrame("d1")
    /\ DOMAIN last_call.params.v = {s_df, <<"o", "p", "e", "r", "a", "t", "i", "o", "n", "s">>}

\* C8 as stated: when the parsed invocation carries the df reference and current_data is
\* None, the tool is called with None as df.
C8_ReferenceResolvesToNone ==
    (/\ pc = "dispatch"
     /\ func_name.v \in available_tools
     /\ CarriesDfReference(Parsed(action_text).params.v)
     /\ current_data = PyNone) =>
        params.v[s_df] = PyNone

\* C9: current_data changes only in the step in which a tool that was called returned a
\* DataFrame, and it is then that DataFrame; after every such step it is that DataFrame.
C9_DatasetFrame ==
    [][/\ (current_data' # current_data) =>
              /\ pc = "dispatch"
              /\ pc' = "loop"
              /\ dispatches' = dispatches + 1
              /\ last_outcome'.kind = "return"
              /\ last_outcome'.result.t = "DataFrame"
              /\ current_data' = last_outcome'.result
       /\ (/\ dispatches' = dispatches + 1
           /\ last_outcome'.kind = "return"
           /\ last_outcome'.result.t = "DataFrame") =>
              current_data' = last_outcome'.result
      ]_vars

\* C9 witness: the stored dataset d1 was replaced by d2, the result of the second tool call
C9_Witness ==
    /\ pc = "loop"
    /\ dispatches = 2
    /\ last_outcome.result = DataFrame("d2")
    /\ current_data = DataFrame("d2")
    /\ s_df \in DOMAIN last_call.params.v
    /\ last_call.params.v[s_df] = DataFrame("d1")

\* C10 as stated: on every entry to run, iterations is 0, current_data is None and the
\* session log holds the task as its only entry.
C10_SessionInitialized ==
    (pc = "loop" /\ iterations = 0) =>
        /\ current_data = PyNone
        /\ session_log = <<[kind |-> "Task", text |-> task, params |-> EmptyDict]>>

(***************************************************************************)
(* The claims about the sessions that load, clean and finish, and about    *)
(* execute_action.                                                         *)
(***************************************************************************)

\* an action entry of the session log with the name n
IsActionEntry(e, n) == e.kind = "Action" /\ e.text = n

\* this run's first response was the read_excel call and its second the clean_data call
\* (each with a thought, so the actions are the entries 3 and 6 of the session log)
LoadedThenCleaned ==
    /\ Len(session_log) >= 6
    /\ IsActionEntry(session_log[3], <<"r", "e", "a", "d", "_", "e", "x", "c", "e", "l">>)
    /\ IsActionEntry(session_log[6], s_clean_data)

\* C11: with the responses read_excel(file_path='data/sales.xlsx'), clean_data(df=df,
\* operations={'dropna': true}), finish(result='Done') and tools that return a dataset:
\* read_excel is called with the file path and its dataset stored; clean_data is called
\* with df the stored dataset and operations the map {dropna: True}, and its result
\* replaces the stored dataset; the run ends in the third iteration and returns "Done"
\* with a session log of at least three entries.
C11_LoadCleanFinish ==
    /\ []((pc = "loop" /\ iterations = 1 /\ action_text = a_read_sales) =>
              /\ dispatches = 1
              /\ last_call = [name |-> PyStr(<<"r", "e", "a", "d", "_", "e", "x", "c", "e", "l">>),
                              params |-> PyDict(<<"f", "i", "l", "e", "_", "p", "a", "t", "h">> :> PyStr(<<"d", "a", "t", "a", "/", "s", "a", "l", "e", "s", ".", "x", "l", "s", "x">>))]
              /\ last_outcome \in DatasetOutcomes
              /\ current_data = last_outcome.result)
    /\ [][(/\ pc = "dispatch"
           /\ iterations = 2
           /\ action_text = a_clean
           /\ IsActionEntry(session_log[3], <<"r", "e", "a", "d", "_", "e", "x", "c", "e", "l">>)) =>
              /\ current_data = last_outcome.result
              /\ last_call'.name = PyStr(s_clean_data)
              /\ last_call'.params =
                     PyDict((s_df :> current_data)
                            @@ (<<"o", "p", "e", "r", "a", "t", "i", "o", "n", "s">> :> PyDict(<<"d", "r", "o", "p", "n", "a">> :> PyBool(TRUE))))
              /\ last_outcome' \in DatasetOutcomes
              /\ current_data' = last_outcome'.result
         ]_vars
    /\ [][(/\ pc = "exit"
           /\ pc' = "idle"
           /\ action_text = a_finish_done
           /\ LoadedThenCleaned
           /\ Len(session_log) = 9) =>
              /\ iterations = 3
              /\ finished = 1
              /\ final_result = PyStr(<<"D", "o", "n", "e">>)
              /\ current_data = last_outcome.result
              /\ Len(session_log) >= 3
              /\ returned' = [t |-> "tuple", v |-> <<PyStr(<<"D", "o", "n", "e">>), session_log>>]
         ]_vars

\* C11 witness: the run is about to return after the three responses, the dataset d1 of
\* read_excel having been replaced by the dataset d2 of clean_data
C11_Witness ==
    /\ pc = "exit"
    /\ iterations = 3
    /\ action_text = a_finish_done
    /\ LoadedThenCleaned
    /\ Len(session_log) = 9
    /\ last_call.params.v[s_df] = DataFrame("d1")
    /\ current_data = DataFrame("d2")

\* C12: a call of execute_action makes no completion request, writes nothing to the session
\* log and leaves current_data alone; for a name of the registry the tool is called with
\* the arguments as given (a df reference is not resolved) and (result, message) of the
\* tool is returned, or (None, "Error executing <name>: <details>") when the tool raises;
\* for any other name no tool is called and (None, "Unknown action: <name>") is returned.
C12_ExecuteAction ==
    [][(pc = "idle" /\ pc' = "idle") =>
           /\ requests' = requests
           /\ last_response' = last_response
           /\ session_log' = session_log
           /\ current_data' = current_data
           /\ returned'.t = "tuple"
           /\ IF func_name'.v \in available_tools
              THEN /\ last_call' = [name |-> func_name', params |-> params']
                   /\ returned'.v =
                          IF last_outcome'.kind = "return"
                          THEN <<last_outcome'.result, PyStr(last_outcome'.message)>>
                          ELSE <<PyNone, PyStr(s_ErrorExecuting \o func_name'.v \o s_ColonSpace
                                                   \o last_outcome'.message)>>
              ELSE /\ last_call' = last_call
                   /\ last_outcome' = last_outcome
                   /\ returned'.v = <<PyNone, PyStr(s_UnknownAction \o func_name'.v)>>
      ]_vars

\* C12 witness: while a dataset is stored, execute_action("clean_data", df='df') called the
\* tool with the text 'df' and returned its (None, "Error: No DataFrame provided")
C12_Witness ==
    /\ pc = "idle"
    /\ current_data \in Datasets
    /\ func_name = PyStr(s_clean_data)
    /\ last_call = [name |-> PyStr(s_clean_data), params |-> PyDict(s_df :> PyStr(s_df))]
    /\ returned = [t |-> "tuple", v |-> <<PyNone, PyStr(s_NoDataFrame)>>]

\* C13: the step that follows parse_action takes the terminating branch exactly when the
\* parsed name is "finish" or "complete"; a run holds a result only after that branch;
\* "Finish(result='Done')" and the unparsable "finish(result='Done'" never terminate a run.
C13_TerminatingSynonyms ==
    /\ []((pc # "idle" /\ final_result # PyNone) => finished = 1)
    /\ [](finished = 1 => action_text \in {a_finish_done, a_complete})
    /\ [][pc = "parse" =>
              ((finished' = finished + 1 /\ pc' = "exit")
                   <=> (Parsed(action_text).name \in {PyStr(s_finish), PyStr(s_complete)}))
         ]_vars
    /\ [][(pc = "parse" /\ action_text \in {a_Finish_upper, a_finish_unclosed}) =>
              (finished' = 0 /\ final_result' = PyNone /\ pc' \in {"dispatch", "loop"})
         ]_vars

\* C13 witness: after "finish(result='Done'" failed to parse in the first iteration,
\* "Finish(result='Done')" was looked up as an unknown action in the second, and the run
\* goes on without a result
C13_Witness ==
    /\ pc = "loop"
    /\ iterations = 2
    /\ max_iterations = 3
    /\ finished = 0
    /\ final_result = PyNone
    /\ action_text = a_Finish_upper
    /\ session_log[3] = ObservationEntry(IterationError(1, s_AttributeErrorCopy))
    /\ LastEntry = ObservationEntry(s_UnknownAction \o <<"F", "i", "n", "i", "s", "h">>)

\* C14 as stated: when the action text does not parse, the observation appended is the
\* parser's failure reason, nothing is looked up or called, and the loop goes on.
C14_ParseFailureReason ==
    [][(pc = "parse" /\ Parsed(action_text).name = PyNone) =>
           /\ session_log' = Append(session_log, ObservationEntry(Parsed(action_text).params.v))
           /\ lookups' = lookups
           /\ dispatches' = dispatches
           /\ pc' = "loop"
      ]_vars

\* C15: when process_task returns no action text, the observation
\* "No action received from LLM" is appended (after the thought, if there is one), nothing
\* is parsed, looked up or called, current_data is unchanged and the loop goes on; the
\* iteration was counted before the request, and iterations never exceeds max_iterations.
C15_NoAction ==
    /\ [](iterations <= max_iterations)
    /\ [][(/\ pc = "request"
           /\ requests' = requests + 1
           /\ last_response'.kind = "return"
           /\ last_response'.action = <<>>) =>
              /\ session_log' =
                     Append(IF last_response'.thought # <<>>
                            THEN Append(session_log,
                                        [kind |-> "Thought", text |-> last_response'.thought,
                                         params |-> EmptyDict])
                            ELSE session_log,
                            ObservationEntry(s_NoActionReceived))
              /\ func_name' = func_name
              /\ params' = params
              /\ lookups' = lookups
              /\ dispatches' = dispatches
              /\ current_data' = current_data
              /\ final_result' = final_result
              /\ iterations' = iterations
              /\ iterations = requests'
              /\ pc' = "loop"
         ]_vars

\* C15 witness: the last iteration of a run got a thought and no action, while a dataset
\* was stored
C15_Witness ==
    /\ pc = "loop"
    /\ iterations = 2
    /\ max_iterations = 2
    /\ last_response = [kind |-> "return", action |-> <<>>, thought |-> s_thought]
    /\ current_data \in Datasets
    /\ LastEntry = ObservationEntry(s_NoActionReceived)

\* the kinds of two entries that may follow one another in the session log
EntryOrder ==
    ({"Task", "Observation"} \X {"Thought", "Action", "Observation"})
        \cup ({"Thought"} \X {"Action", "Observation"})
        \cup ({"Action"} \X {"Observation"})

\* C16: during a run every step keeps the entries of the session log and appends to
\* them; the first entry is the task of the run and no other entry is a task; a thought
\* is followed by an action or an observation, an action by an observation only, and an
\* observation by the thought, action or observation of the next iteration.
C16_AppendOnly ==
    /\ [](runs > 0 =>
              /\ Len(session_log) >= 1
              /\ session_log[1] = [kind |-> "Task", text |-> task, params |-> EmptyDict])
    /\ [](\A i \in 1..(Len(session_log) - 1) :
              <<session_log[i].kind, session_log[i + 1].kind>> \in EntryOrder)
    /\ [][pc # "idle" =>
              /\ Len(session_log') >= Len(session_log)
              /\ SubSeq(session_log', 1, Len(session_log)) = session_log
         ]_vars

\* C16 witness: in the second run of an agent, an iteration with thought, action and
\* observation was followed by an iteration with an observation only
C16_Witness ==
    /\ runs = 2
    /\ pc = "loop"
    /\ Len(session_log) = 5
    /\ [i \in 1..5 |-> session_log[i].kind]
           = <<"Task", "Thought", "Action", "Observation", "Observation">>

(***************************************************************************)
(* The claims about parse_action.  In a state with params # None the       *)
(* action text was parsed: func_name and params are what parse_action      *)
(* returned for action_text.                                               *)
(***************************************************************************)

\* parse_action was applied to the action text
Applied == params # PyNone

OneArg(a) == CallText(<<"f">>, <<a>>)

\* C18: the call f(x={'a':1,'b':2}) parses to exactly one argument x, whose value is the
\* two-entry map of a to 1 and b to 2, and the call f(l=[1,2]) parses to exactly one
\* argument l, whose value is a list of two items: a comma inside braces or brackets
\* neither starts a new argument nor cuts the value short.
C18_NestedLiterals ==
    /\ (Applied /\ action_text = OneArg(<<"x", "=", "{", "'", "a", "'", ":", "1", ",", "'", "b", "'", ":", "2", "}">>)) =>
           /\ func_name = PyStr(<<"f">>)
           /\ params = PyDict(<<"x">> :> PyDict((<<"a">> :> PyInt(1)) @@ (<<"b">> :> PyInt(2))))
    /\ (Applied /\ action_text = OneArg(<<"l", "=", "[", "1", ",", "2", "]">>)) =>
           /\ func_name = PyStr(<<"f">>)
           /\ params.t = "dict"
           /\ DOMAIN params.v = {<<"l">>}
           /\ params.v[<<"l">>].t = "list"
           /\ Len(params.v[<<"l">>].v) = 2

\* the scalar arguments of ArgTexts, each with the key and the value it denotes:
\* a boolean, a negative and a positive integer, a floating-point number (kept as its
\* literal), a single-quoted string with a comma and a double-quoted string with '='
ScalarArgs ==
    { [text |-> <<"f", "l", "a", "g", "=", "T", "r", "u", "e">>, key |-> <<"f", "l", "a", "g">>, value |-> PyBool(TRUE)],
      [text |-> <<"n", "=", "-", "5">>, key |-> <<"n">>, value |-> PyInt(0 - 5)],
      [text |-> <<"n", "=", "7">>, key |-> <<"n">>, value |-> PyInt(7)],
      [text |-> <<"r", "=", "1", ".", "5">>, key |-> <<"r">>, value |-> PyFloat(<<"1", ".", "5">>)],
      [text |-> <<"s", "=", "'", "a", ",", "b", "'">>, key |-> <<"s">>, value |-> PyStr(<<"a", ",", "b">>)],
      [text |-> <<"t", "=", "\"", "x", "=", "y", "\"">>, key |-> <<"t">>, value |-> PyStr(<<"x", "=", "y">>)] }

\* C19: a call f(k=v) whose value is a scalar (a boolean, an integer that may be negative,
\* a floating-point number, a string in either quote style that may contain a comma or an
\* equals sign) parses to the name f and to the parameters that map k to the value v
\* denotes, with its type.
C19_ScalarsDecoded ==
    \A a \in ScalarArgs :
        (Applied /\ action_text = OneArg(a.text)) =>
            /\ func_name = PyStr(<<"f">>)
            /\ params = PyDict(a.key :> a.value)

\* the text has the shape of a call: it starts with a word, which white space may
\* follow, then comes a '(' that has a ')' after it on the same line
CallShape(text) ==
    \E i \in 2..Len(text) :
        /\ text[i] = "("
        /\ \E n \in 1..(i - 1) :
               /\ \A q \in 1..n : IsWordChar(text[q])
               /\ \A q \in (n + 1)..(i - 1) : IsSpaceChar(text[q])
        /\ \E j \in (i + 1)..Len(text) :
               /\ text[j] = ")"
               /\ \A q \in (i + 1)..(j - 1) : text[q] # "\n"

\* C20: parse_action returns normally on every action text, malformed ones included: a
\* text without the shape of a call (such as one that lacks its closing parenthesis) gives
\* a parse failure, no operation name and the reason "Could not parse action: " followed
\* by the text ("No action specified" for the empty text), and every other text (a trailing comma, an unquoted bare word) gives a
\* name and a dictionary of parameters.
C20_MalformedInput ==
    Applied =>
        IF CallShape(action_text)
            THEN func_name.t = "str" /\ params.t = "dict"
            ELSE /\ func_name = PyNone
                 /\ params = IF action_text = <<>>
                                THEN PyStr(s_NoActionSpecified)
                                ELSE PyStr(s_CouldNotParse \o Replace(action_text, s_df_eq_df, s_df_eq_sq))

\* C20 witness: f(n=7 without its closing parenthesis was parsed to a parse failure
C20_Witness ==
    /\ Applied
    /\ action_text = Unclosed(OneArg(<<"n", "=", "7">>))
    /\ func_name = PyNone
    /\ params = PyStr(s_CouldNotParse \o <<"f", "(", "n", "=", "7">>)

\* C21: a call with prose before it, after it or around it parses to the name and the
\* parameters that the call alone parses to.
C21_ProseIgnored ==
    \A c \in OneArgCalls :
        (Applied /\ action_text \in {s_prose_before \o c, c \o s_prose_after,
                                     s_prose_before \o c \o s_prose_after}) =>
            LET Same(r) == func_name = r.name /\ params = r.params
            IN Same(parse_action(c))

(***************************************************************************)
(* The claims about the iterations of run, its requests and its history.   *)
(***************************************************************************)

\* C22: in every state of run the iteration counter is between 0 and max_iterations; the
\* completion requests made in the run are as many as the iterations, one less while the
\* current iteration has not made its request yet; the tool calls are never more than the
\* requests, and a tool is called only in an iteration that made its request and has
\* not called a tool yet.
C22_OneRequestPerIteration ==
    /\ 0 <= iterations
    /\ iterations <= max_iterations
    /\ requests = IF pc = "request" THEN iterations - 1 ELSE iterations
    /\ dispatches <= lookups
    /\ lookups <= requests
    /\ pc = "dispatch" => (requests = iterations /\ lookups < requests)

\* C22 witness: the second of two iterations has made its request and is about to call
\* a tool, after the first iteration called one
C22_Witness ==
    /\ pc = "dispatch"
    /\ max_iterations = 2
    /\ iterations = 2
    /\ requests = 2
    /\ dispatches = 1
    /\ func_name.v \in available_tools

(***************************************************************************)
(* The claims about the df reference and the keys of parse_action.         *)
(***************************************************************************)

\* the text has an argument whose key is exactly df and whose value is df, 'df' or "df":
\* one of the three forms, right after the '(' or after a separator
HasAliasArgument(text) ==
    \E form \in {s_df_eq_df, s_df_eq_sq, s_df_eq_dq} :
        \E i \in 2..Len(text) :
            /\ StartsAt(text, form, i)
            /\ text[i - 1] \in {"(", ",", " "}

\* C23: the parameters parse_action returns hold the df reference only if the text has an
\* argument df whose value is df, 'df' or "df"; the call f(other_df=df) parses to the one
\* argument other_df, and the call f(note="df=df") to the one argument note with the
\* string df=df.
C23_AliasOnly ==
    /\ (Applied /\ params.t = "dict" /\ s_df \in DOMAIN params.v /\ params.v[s_df] = PyStr(s_df)) =>
           HasAliasArgument(action_text)
    /\ (Applied /\ action_text = OneArg(a_other_df)) =>
           /\ params.t = "dict"
           /\ DOMAIN params.v = {<<"o", "t", "h", "e", "r", "_", "d", "f">>}
    /\ (Applied /\ action_text = OneArg(a_note_df)) =>
           params = PyDict(<<"n", "o", "t", "e">> :> PyStr(<<"d", "f", "=", "d", "f">>))

\* the text has a dangling separator: a comma with no argument before it, after it, or
\* between it and the next comma
DanglingSeparator(text) ==
    LET Bare(t) ==
            \/ StartsWith(t, <<",">>)
            \/ EndsWith(t, <<",">>)
            \/ \E i \in 1..Len(t) : \E j \in (i + 1)..Len(t) :
                   /\ t[i] = ","
                   /\ t[j] = ","
                   /\ \A q \in (i + 1)..(j - 1) : IsSpaceChar(t[q])
    IN Bare(Strip(text))

\* C24: for a well-formed call with an argument df=df, df='df' or df="df", first, last,
\* in the middle or alone, the argument text that remains after parse_action took the
\* argument out has no dangling separator: no comma at its start, none at its end and no
\* two commas in a row.
C24_NoDanglingSeparator ==
    (Applied /\ action_text \in WellFormedCalls /\ HasAliasArgument(action_text)) =>
        ~DanglingSeparator(RemainingText(action_text))

\* arguments that share their keys, n and df
DuplicateKeyArgs == AliasArgs \cup {a_df_seven, <<"n", "=", "-", "5">>, <<"n", "=", "7">>}

\* the key of the argument text key=value
KeyOf(arg) == Strip(SplitFirst(arg, "=")[1])

\* C25: a call f(a, b) whose two arguments have the same key parses to the parameters of
\* the call f(b): the key occurs once, with the value of its last occurrence, also when
\* the key is df, the first occurrence is the df reference and the second another value.
C25_LastOccurrenceWins ==
    \A a \in DuplicateKeyArgs : \A b \in DuplicateKeyArgs :
        (KeyOf(a) = KeyOf(b) /\ Applied /\ action_text = CallText(<<"f">>, <<a, b>>)) =>
            LET Last(r) == func_name = r.name /\ params = r.params
            IN Last(parse_action(OneArg(b)))

\* C26: when the call of the completion service fails, process_task returns an empty
\* action and an empty thought, and the iteration appends the observation
\* "No action received from LLM" and nothing else, looks up and calls no tool, keeps
\* current_data and final_result, and goes back to the head of the loop; run then
\* returns as it does after any other iteration.
C26_ServiceFailure ==
    /\ \A r \in FailureResponses : r.action = <<>> /\ r.thought = <<>>
    /\ [][(/\ pc = "request"
           /\ requests' = requests + 1
           /\ last_response'.kind = "failure") =>
              /\ action_text' = <<>>
              /\ session_log' = Append(session_log, ObservationEntry(s_NoActionReceived))
              /\ lookups' = lookups
              /\ dispatches' = dispatches
              /\ current_data' = current_data
              /\ final_result' = final_result
              /\ pc' = "loop"
         ]_vars
    /\ [](last_response.kind = "failure" => pc \in {"loop", "request", "exit", "idle"})

\* C26 witness: a run of two iterations, both of which met a failure of the completion
\* service, has returned no result and a log of the task and two observations
C26_Witness ==
    /\ pc = "idle"
    /\ runs = 1
    /\ max_iterations = 2
    /\ requests = 2
    /\ last_response.kind = "failure"
    /\ returned = [t |-> "tuple",
                   v |-> <<PyNone,
                           <<[kind |-> "Task", text |-> task, params |-> EmptyDict],
                             ObservationEntry(s_NoActionReceived),
                             ObservationEntry(s_NoActionReceived)>>>>]

\* C27: every call of process_task is given the task of the run, followed by the note that
\* a DataFrame is loaded exactly when current_data is set at the time of the call, and the
\* session log as it is at that time: all the entries of the run so far.
C27_RequestArguments ==
    /\ [][(pc = "request" /\ requests' = requests + 1) =>
              /\ StartsWith(last_request'.task, task)
              /\ last_request'.task = task \o s_StoredDataInfo <=> current_data # PyNone
              /\ last_request'.task = task <=> current_data = PyNone
              /\ last_request'.log = session_log
              /\ Len(session_log) >= 1
              /\ session_log[1] = [kind |-> "Task", text |-> task, params |-> EmptyDict]
         ]_vars
    /\ [](requests > 0 =>
              /\ Len(last_request.log) <= Len(session_log)
              /\ last_request.log = SubSeq(session_log, 1, Len(last_request.log)))

\* C27 witness: the second request of a run was given the note about the DataFrame that
\* the first iteration loaded, and the task, thought, action and observation logged so far
C27_Witness ==
    /\ requests = 2
    /\ pc = "parse"
    /\ current_data \in Datasets
    /\ last_request.task = task \o s_StoredDataInfo
    /\ Len(last_request.log) = 4
    /\ [i \in 1..4 |-> last_request.log[i].kind] = <<"Task", "Thought", "Action", "Observation">>

\* the number of the entries of a kind in the session log
CountKind(kind) == Cardinality({i \in DOMAIN session_log : session_log[i].kind = kind})

\* the entries a step of run appended to the session log
Appended == SubSeq(session_log', Len(session_log) + 1, Len(session_log'))

\* C28: between iterations and after the run, the Observation entries of the session log
\* are as many as the iterations that did not terminate the loop.  Within an iteration the
\* request appends no Action entry, and an Observation entry exactly when the iteration ends
\* there; parsing appends one Action entry and nothing else exactly when parse_action
\* returned a name, and one Observation entry and nothing else when it did not; the
\* registry lookup comes after the Action entry, which is then the last entry, and appends
\* one Observation entry; the terminating iteration leaves its Action entry last.
C28_EntriesPerIteration ==
    /\ []((pc \in {"loop", "exit"} \/ (pc = "idle" /\ runs > 0)) =>
              /\ CountKind("Observation") = iterations - finished
              /\ CountKind("Action") <= iterations
              /\ finished \in {0, 1}
              /\ finished = 1 => LastEntry.kind = "Action")
    /\ [](pc = "dispatch" => LastEntry.kind = "Action")
    /\ [][(pc = "request" /\ requests' = requests + 1) =>
              /\ \A i \in DOMAIN Appended : Appended[i].kind \in {"Thought", "Observation"}
              /\ Cardinality({i \in DOMAIN Appended : Appended[i].kind = "Observation"})
                     = IF pc' = "loop" THEN 1 ELSE 0
              /\ pc' \in {"loop", "parse"}
         ]_vars
    /\ [][(pc = "parse" /\ pc' # "parse") =>
              /\ Len(Appended) = 1
              /\ Appended[1].kind = "Action" <=> Parsed(action_text).name # PyNone
              /\ Appended[1].kind = "Observation" <=> Parsed(action_text).name = PyNone
              /\ Appended[1].kind = "Action" <=> pc' \in {"dispatch", "exit"}
              /\ lookups' = lookups
         ]_vars
    /\ [][(pc = "dispatch" /\ pc' # "dispatch") =>
              /\ lookups' = lookups + 1
              /\ Len(Appended) = 1
              /\ Appended[1].kind = "Observation"
         ]_vars

\* C28 witness: a run of two iterations is over; the first called a tool and the second
\* terminated the loop, and the log holds one observation and two actions, the last entry
\* being the action of the terminating iteration
C28_Witness ==
    /\ RunOver(1)
    /\ iterations = 2
    /\ dispatches = 1
    /\ [i \in DOMAIN session_log |-> session_log[i].kind]
           = <<"Task", "Thought", "Action", "Observation", "Thought", "Action">>

(***************************************************************************)
(* The claims about the session state across run and execute_action.       *)
(***************************************************************************)

\* C29: a call of execute_action, whether the tool returns a DataFrame, returns None with
\* a message or raises, and whether the name is known or not, leaves current_data, the
\* session log and the locals of the last run as they were; before the first run the
\* agent still has no data and an empty log, however often execute_action was called.
C29_ExecuteActionFrame ==
    /\ [][(pc = "idle" /\ pc' = "idle") =>
              /\ current_data' = current_data
              /\ session_log' = session_log
              /\ <<task, iterations, final_result>>' = <<task, iterations, final_result>>
         ]_vars
    /\ [](runs = 0 => (current_data = PyNone /\ session_log = <<>>))

\* C29 witness: after a run that stored the dataset d1 and logged four entries,
\* execute_action returned the dataset d2 of a tool, and d1 is still the current data
C29_Witness ==
    /\ pc = "idle"
    /\ runs = 1
    /\ current_data = DataFrame("d1")
    /\ Len(session_log) = 4
    /\ last_outcome.kind = "return"
    /\ returned = [t |-> "tuple", v |-> <<DataFrame("d2"), PyStr(last_outcome.message)>>]

\* C30: over any sequence of calls of run and execute_action, a step that changes
\* current_data is the return of a DataFrame by a tool that run called, and the DataFrame
\* is the new value; so current_data, once it holds a DataFrame, holds one ever after: a
\* tool that raises or returns None, an unknown or unparsable action, a terminating
\* action, the start of a new run and execute_action leave it in place.
C30_DatasetKept ==
    /\ [](current_data = PyNone \/ current_data \in Datasets)
    /\ [][current_data # PyNone => current_data' # PyNone]_vars
    /\ [][current_data' # current_data =>
              /\ pc = "dispatch"
              /\ dispatches' = dispatches + 1
              /\ last_outcome'.kind = "return"
              /\ last_outcome'.result \in Datasets
              /\ current_data' = last_outcome'.result
         ]_vars

\* C30 witness: in the second run of an agent, the dataset that the first run stored is
\* still the current data after a tool raised
C30_Witness ==
    /\ runs = 2
    /\ pc = "loop"
    /\ iterations = 1
    /\ dispatches = 1
    /\ last_outcome.kind = "raise"
    /\ current_data \in Datasets

====
